---- MODULE Spec2Model ----
(***************************************************************************)
(* Model of setup.py: the descriptors that map a build output to a place   *)
(* in the package (_BaseExtension, BuiltFile, BuiltExtension), the command *)
(* that installs them (InstallerBuildExt), the scoped environment patch    *)
(* (Buck2EnvironmentFixer) and the command that drives cmake               *)
(* (CustomBuild).                                                          *)
(*                                                                         *)
(* Text is a sequence of tokens.  A token is either a separator character  *)
(* ("/", ".", " ", a tab), a placeholder ("%CMAKE_CACHE_DIR%",             *)
(* "%BUILD_TYPE%"), the glob wildcard "*", or an opaque run of ordinary    *)
(* characters ("flatc", ".so", ...).  str.replace, str.split, "in",        *)
(* endswith and removeprefix are computed on these sequences the way       *)
(* Python computes them on characters.                                     *)
(*                                                                         *)
(* A path (pathlib.Path) is a sequence of components; a component is a     *)
(* non-empty sequence of tokens; an absolute path starts with the          *)
(* component ROOT.                                                         *)
(***************************************************************************)
EXTENDS Naturals, Integers, Sequences, FiniteSets, TLC

\* ------------------------------------------------------------------------
\* Bounds of the model
\* ------------------------------------------------------------------------
\* Longest list of descriptors (ext_modules) an install command is given.
MaxExts == 2
\* Longest free-form override text (CMAKE_ARGS, CMAKE_BUILD_ARGS), in tokens.
MaxOverrideLen == 4
\* Longest captured standard-error text of the configure step, in tokens.
MaxStderrLen == 3
\* The longest source pattern of the resolve inputs, in tokens.
MaxPatternLen == 3

\* ------------------------------------------------------------------------
\* Text helpers (Python str)
\* ------------------------------------------------------------------------
SLASH == "/"
DOT == "."
SPACE == " "
TAB == "\t"
STAR == "*"
CACHE_DIR_TOKEN == "%CMAKE_CACHE_DIR%"
BUILD_TYPE_TOKEN == "%BUILD_TYPE%"

\* All texts over alphabet A of length at most n.
TextsUpTo(A, n) == UNION {[1..k -> A] : k \in 0..n}

\* s[i..] starts with p.
StartsAt(s, p, i) ==
    /\ i + Len(p) - 1 <= Len(s)
    /\ \A k \in 1..Len(p) : s[i + k - 1] = p[k]

\* Python: sub in s
Contains(s, sub) == \E i \in 1..(Len(s) + 1) : StartsAt(s, sub, i)

\* Python: s.endswith(suffix)
EndsWith(s, suffix) ==
    /\ Len(suffix) <= Len(s)
    /\ StartsAt(s, suffix, Len(s) - Len(suffix) + 1)

\* Python: s.removeprefix(prefix)
RemovePrefix(s, prefix) ==
    IF Len(prefix) <= Len(s) /\ StartsAt(s, prefix, 1)
    THEN SubSeq(s, Len(prefix) + 1, Len(s))
    ELSE s

\* Python: s.replace(old, new), old non-empty: leftmost, non-overlapping.
RECURSIVE ReplaceFrom(_, _, _, _)
ReplaceFrom(s, old, new, i) ==
    IF i > Len(s) THEN <<>>
    ELSE IF StartsAt(s, old, i)
         THEN new \o ReplaceFrom(s, old, new, i + Len(old))
         ELSE <<s[i]>> \o ReplaceFrom(s, old, new, i + 1)

Replace(s, old, new) == ReplaceFrom(s, old, new, 1)

\* Python: s.split(sep) for a one-character sep; keeps empty fields.
RECURSIVE SplitFrom(_, _, _, _)
SplitFrom(s, sep, i, cur) ==
    IF i > Len(s) THEN <<cur>>
    ELSE IF s[i] = sep
         THEN <<cur>> \o SplitFrom(s, sep, i + 1, <<>>)
         ELSE SplitFrom(s, sep, i + 1, Append(cur, s[i]))

Split(s, sep) == SplitFrom(s, sep, 1, <<>>)

\* Python: [item for item in xs if item]
RECURSIVE NonEmpty(_)
NonEmpty(xs) ==
    IF xs = <<>> THEN <<>>
    ELSE IF Head(xs) = <<>> THEN NonEmpty(Tail(xs))
         ELSE <<Head(xs)>> \o NonEmpty(Tail(xs))

\* Index of the last occurrence of token c in s, 0 if none.
LastIndexOf(s, c) ==
    IF \E i \in 1..Len(s) : s[i] = c
    THEN CHOOSE i \in 1..Len(s) : s[i] = c /\ \A j \in (i + 1)..Len(s) : s[j] # c
    ELSE 0

\* ------------------------------------------------------------------------
\* Path helpers (pathlib, os.path)
\* ------------------------------------------------------------------------
ROOT == <<SLASH>>

IsAbs(p) == p # <<>> /\ p[1] = ROOT

\* Path(text): components between separators; empty and "." components drop.
RECURSIVE DropDots(_)
DropDots(cs) ==
    IF cs = <<>> THEN <<>>
    ELSE IF Head(cs) = <<DOT>> THEN DropDots(Tail(cs))
         ELSE <<Head(cs)>> \o DropDots(Tail(cs))

PathOf(text) ==
    (IF text # <<>> /\ text[1] = SLASH THEN <<ROOT>> ELSE <<>>)
        \o DropDots(NonEmpty(Split(text, SLASH)))

\* pathlib: a / b
Join(a, b) == IF IsAbs(b) THEN b ELSE a \o b

\* Path.name, os.path.basename of a path
BaseName(p) == IF p = <<>> \/ p = <<ROOT>> THEN <<>> ELSE p[Len(p)]

\* Path.parent
Parent(p) == IF p = <<>> \/ p = <<ROOT>> THEN p ELSE SubSeq(p, 1, Len(p) - 1)

\* os.path.dirname(text): the text before the last separator, its trailing
\* separators stripped unless it is made of separators only.
RECURSIVE StripTrailingSlashes(_)
StripTrailingSlashes(s) ==
    IF s # <<>> /\ s[Len(s)] = SLASH
    THEN StripTrailingSlashes(SubSeq(s, 1, Len(s) - 1))
    ELSE s

DirName(text) ==
    LET head == SubSeq(text, 1, LastIndexOf(text, SLASH))
    IN  IF head # <<>> /\ \E i \in 1..Len(head) : head[i] # SLASH
        THEN StripTrailingSlashes(head)
        ELSE head

\* fnmatch of one path component against one file name: "*" matches any run
\* of tokens, every other token matches itself.
RECURSIVE FnMatch(_, _)
FnMatch(pat, name) ==
    IF pat = <<>> THEN name = <<>>
    ELSE IF Head(pat) = STAR
         THEN \E k \in 0..Len(name) :
                 FnMatch(Tail(pat), SubSeq(name, k + 1, Len(name)))
         ELSE /\ name # <<>>
              /\ Head(name) = Head(pat)
              /\ FnMatch(Tail(pat), Tail(name))

\* ------------------------------------------------------------------------
\* The file system
\* ------------------------------------------------------------------------
\* fs maps the absolute path of every regular file to its permission bits and
\* to its data (the path of the build output the bytes come from).
CWD == <<ROOT, <<"repo">>>>

\* Paths given to the operating system resolve against the working directory.
Abs(p) == IF IsAbs(p) THEN p ELSE CWD \o p

\* Files and the directories that hold them.
Entries(files) ==
    files \cup UNION {{SubSeq(f, 1, k) : k \in 1..(Len(f) - 1)} : f \in files}

IsFile(files, p) == Abs(p) \in files

\* Path.glob: the paths under build_dir whose components match the pattern's
\* components one by one.  An empty pattern is refused with a ValueError,
\* which the caller cannot tell from "no match".
Glob(build_dir, pattern, files) ==
    LET base  == Abs(build_dir)
        comps == PathOf(pattern)
        n     == Len(base)
    IN  IF comps = <<>> THEN {}
        ELSE { build_dir \o SubSeq(e, n + 1, Len(e)) :
                 e \in { x \in Entries(files) :
                           /\ Len(x) = n + Len(comps)
                           /\ SubSeq(x, 1, n) = base
                           /\ \A i \in 1..Len(comps) : FnMatch(comps[i], x[n + i]) } }

\* ------------------------------------------------------------------------
\* get_build_type
\* ------------------------------------------------------------------------
\* is_debug is the command's debug option: "None", "True" or "False".  With
\* "None" the DEBUG environment variable decides (int(DEBUG or 0)).
get_build_type(is_debug, env) ==
    LET fromEnv == "DEBUG" \in DOMAIN env /\ env["DEBUG"] \notin {<<>>, <<"0">>}
        dbg     == IF is_debug = "None" THEN fromEnv ELSE is_debug = "True"
    IN  IF dbg THEN "Debug" ELSE "Release"

\* ------------------------------------------------------------------------
\* Descriptors: [kind, src, dst, name, optional]
\* ------------------------------------------------------------------------
\* _BaseExtension.__init__ passes no "optional" to Extension, so it is falsy.
BaseExtension(kind, src, dst) ==
    [kind |-> kind, src |-> src, dst |-> dst, optional |-> FALSE]

\* BuiltFile.__init__, after src_dir and src_name were joined.
BuiltFile(src, dst) == BaseExtension("BuiltFile", src, dst)

\* BuiltExtension.__init__: the source is always under the cache directory.
BuiltExtension(src, modpath) ==
    BaseExtension("BuiltExtension", <<CACHE_DIR_TOKEN, SLASH>> \o src, modpath)

\* The installer a descriptor is resolved for: what src_path and dst_path read
\* of the build_ext command, of the build command and of the process.
\*   cache   : <<>> when the build command has no cmake_cache_dir attribute,
\*             else <<dir>> 
\*   debug   : the build_ext command's debug option
\*   os_name : os.name
\*   env     : os.environ
\*   files   : the regular files that exist
\*   inplace : the build_ext command's inplace option
Ok(p) == [ok |-> TRUE, path |-> p]
Raise(e) == [ok |-> FALSE, err |-> e]

\* Placeholder substitution of _BaseExtension.src_path.
SubstitutePlaceholders(src, os_name, cfg) ==
    LET s1 == Replace(src, <<CACHE_DIR_TOKEN, SLASH>>, <<>>)
    IN  IF os_name = "nt"
        THEN Replace(s1, <<BUILD_TYPE_TOKEN>>, <<cfg>>)
        ELSE Replace(s1, <<SLASH, BUILD_TYPE_TOKEN>>, <<>>)

\* What the glob of _BaseExtension.src_path matches.
SrcMatches(ext, inst) ==
    LET build_dir == IF Contains(ext.src, <<CACHE_DIR_TOKEN>>)
                     THEN inst.cache[1] ELSE <<>>
        cfg       == get_build_type(inst.debug, inst.env)
    IN  Glob(build_dir, SubstitutePlaceholders(ext.src, inst.os_name, cfg),
             inst.files)

\* Mutant of NotExactlyOne: only "no match" is refused.
NotExactlyOne_OnlyZero(srcs) == Cardinality(srcs) = 0

\* len(srcs) != 1 of _BaseExtension.src_path.
NotExactlyOne(srcs) == Cardinality(srcs) # 1

\* Mutant of BaseSrcPath: with no cache directory exposed, a pattern that
\* names it is searched for under the current directory.
BaseSrcPath_SearchesCwd(ext, inst) ==
    LET build_dir == IF Contains(ext.src, <<CACHE_DIR_TOKEN>>) /\ inst.cache # <<>>
                     THEN inst.cache[1] ELSE <<>>
        srcs      == Glob(build_dir,
                          SubstitutePlaceholders(ext.src, inst.os_name,
                              get_build_type(inst.debug, inst.env)),
                          inst.files)
    IN  IF NotExactlyOne(srcs) THEN Raise("ValueError")
        ELSE Ok(CHOOSE p \in srcs : TRUE)

\* _BaseExtension.src_path
BaseSrcPath(ext, inst) ==
    IF Contains(ext.src, <<CACHE_DIR_TOKEN>>) /\ inst.cache = <<>>
    THEN Raise("RuntimeError")
    ELSE IF IsAbs(PathOf(SubstitutePlaceholders(ext.src, inst.os_name,
                             get_build_type(inst.debug, inst.env))))
    THEN Raise("NotImplementedError")   \* Path.glob refuses absolute patterns
    ELSE LET srcs == SrcMatches(ext, inst)
         IN  IF NotExactlyOne(srcs) THEN Raise("ValueError")
             ELSE Ok(CHOOSE p \in srcs : TRUE)

\* Mutant of DylibSrc: the retried source keeps its suffix.
DylibSrc_SameSuffix(src) == src

\* BuiltExtension.src_path: on ValueError, a source ending in ".so" is tried
\* again as a new BuiltExtension with ".dylib" (whose constructor prepends
\* the cache-directory placeholder once more).
DylibSrc(src) == SubSeq(src, 1, Len(src) - 1) \o <<".dylib">>

BuiltExtensionSrcPath(ext, inst) ==
    LET first == BaseSrcPath(ext, inst)
    IN  IF first.ok \/ first.err # "ValueError" THEN first
        ELSE IF EndsWith(ext.src, <<".so">>)
             \* The retried source ends in ".dylib": its own fallback never
             \* applies, its result is the base resolution's.
             THEN BaseSrcPath(BuiltExtension(DylibSrc(ext.src), ext.dst), inst)
             ELSE first

\* ext.src_path(installer), dispatched on the class of the descriptor.
SrcPath(ext, inst) ==
    IF ext.kind = "BuiltExtension" THEN BuiltExtensionSrcPath(ext, inst)
    ELSE BaseSrcPath(ext, inst)

\* One call of _BaseExtension.src_path as it went: the pattern it was given,
\* the directory it searched and the pattern it globbed (<<>> when it raised
\* before it had them), the build type it substituted, and how it ended.
BaseSrcCall(ext, inst) ==
    LET known == ~(Contains(ext.src, <<CACHE_DIR_TOKEN>>) /\ inst.cache = <<>>)
        type  == get_build_type(inst.debug, inst.env)
    IN  [src       |-> ext.src,
         build_dir |-> IF ~known THEN <<>>
                       ELSE IF Contains(ext.src, <<CACHE_DIR_TOKEN>>)
                       THEN <<inst.cache[1]>> ELSE << <<>> >>,
         cfg       |-> IF known THEN <<type>> ELSE <<>>,
         pattern   |-> IF known
                       THEN <<SubstitutePlaceholders(ext.src, inst.os_name, type)>>
                       ELSE <<>>,
         result    |-> BaseSrcPath(ext, inst)]

\* The _BaseExtension.src_path calls that one ext.src_path(installer) makes:
\* one, and for a BuiltExtension the retried one after it.
SrcPathCalls(ext, inst) ==
    LET first == BaseSrcCall(ext, inst)
    IN  IF /\ ext.kind = "BuiltExtension"
           /\ ~first.result.ok
           /\ first.result.err = "ValueError"
           /\ EndsWith(ext.src, <<".so">>)
        THEN <<first, BaseSrcCall(BuiltExtension(DylibSrc(ext.src), ext.dst), inst)>>
        ELSE <<first>>

\* The src_path calls of ext.src_path(installer) followed by
\* ext.dst_path(installer), which build_extension and
\* copy_extensions_to_source make in this order: dst_path is not reached
\* when src_path raised, and only a BuiltFile with a directory destination
\* resolves its source again.
ResolveCalls(ext, inst) ==
    LET calls == SrcPathCalls(ext, inst)
    IN  calls \o (IF /\ calls[Len(calls)].result.ok
                     /\ ext.kind = "BuiltFile"
                     /\ EndsWith(ext.dst, <<SLASH>>)
                  THEN calls ELSE <<>>)

\* Path(installer.build_lib).resolve()
BuildLib == CWD \o << <<"lib">> >>

\* The platform's extension suffix (sysconfig EXT_SUFFIX).
ExtSuffix == <<".abi", ".so">>

\* build_ext.get_ext_fullpath(modpath): the file that maps to a dotted
\* module path, under build_lib, or under the package directory when the
\* command is in place.
GetExtFullPath(modpath, inst) ==
    LET parts    == Split(modpath, DOT)
        filename == parts[Len(parts)] \o ExtSuffix
        packages == SubSeq(parts, 1, Len(parts) - 1)
    IN  IF inst.inplace THEN CWD \o packages \o <<filename>>
        ELSE << <<"lib">> >> \o packages \o <<filename>>

\* Mutant of BuiltFileDstPath: a directory-style destination gets the last
\* component of the source pattern, not of the resolved file.
BuiltFileDstPath_PatternName(ext, inst) ==
    IF EndsWith(ext.dst, <<SLASH>>)
    THEN Ok(Join(Join(BuildLib, PathOf(ext.dst)), <<BaseName(PathOf(ext.src))>>))
    ELSE Ok(Join(BuildLib, PathOf(ext.dst)))

\* BuiltFile.dst_path
BuiltFileDstPath(ext, inst) ==
    IF EndsWith(ext.dst, <<SLASH>>)
    THEN LET src == SrcPath(ext, inst)
         IN  IF src.ok
             THEN Ok(Join(Join(BuildLib, PathOf(ext.dst)), <<BaseName(src.path)>>))
             ELSE src
    ELSE Ok(Join(BuildLib, PathOf(ext.dst)))

\* BuiltExtension.dst_path
BuiltExtensionDstPath(ext, inst) == Ok(GetExtFullPath(ext.dst, inst))

\* ext.dst_path(installer)
DstPath(ext, inst) ==
    IF ext.kind = "BuiltExtension" THEN BuiltExtensionDstPath(ext, inst)
    ELSE BuiltFileDstPath(ext, inst)

\* BuiltFile.inplace_dir
BuiltFileInplaceDir(ext) ==
    LET package_dir == RemovePrefix(ext.dst, <<"executorch", SLASH>>)
    IN  IF ~EndsWith(package_dir, <<SLASH>>)
        THEN PathOf(DirName(package_dir))
        ELSE PathOf(package_dir)

\* BuiltExtension.inplace_dir: abspath of the directory of the package that
\* holds the module (build_py.get_package_dir with no package_dir table).
BuiltExtensionInplaceDir(ext) ==
    LET modpath == Split(ext.dst, DOT)
    IN  CWD \o SubSeq(modpath, 1, Len(modpath) - 1)

\* ext.inplace_dir(installer)
InplaceDir(ext) ==
    IF ext.kind = "BuiltExtension" THEN BuiltExtensionInplaceDir(ext)
    ELSE BuiltFileInplaceDir(ext)

\* ------------------------------------------------------------------------
\* Fixed paths and texts of CustomBuild.run
\* ------------------------------------------------------------------------
\* os.path.join(repo_root, self.build_temp, "cmake-out")
CMakeCacheDir == CWD \o << <<"temp">>, <<"cmake-out">> >>
CMakeCacheFile == CMakeCacheDir \o << <<"CMakeCache", ".txt">> >>

\* The substring of cmake's diagnostics that marks a missing source file.
MissingSourceSignature == <<"Cannot find", " source file">>
\* The fixed remediation message.
Remediation == <<"Either CMake cache is outdated or git submodules are not synced...">>
NEWLINE == "\n"

\* ShouldBuild._is_env_enabled
IsEnvEnabled(env, env_var, default) ==
    IF env_var \notin DOMAIN env THEN default
    ELSE env[env_var] \notin {<<"OFF">>, <<"0">>, <<>>}

\* ShouldBuild.pybindings, training, llama_custom_ops
ShouldBuildPybindings(env) == IsEnvEnabled(env, "EXECUTORCH_BUILD_PYBIND", FALSE)
ShouldBuildTraining(env) == IsEnvEnabled(env, "EXECUTORCH_BUILD_TRAINING", FALSE)
ShouldBuildLlamaCustomOps(env) ==
    IsEnvEnabled(env, "EXECUTORCH_BUILD_KERNELS_CUSTOM_AOT", TRUE)

\* Mutant of OverrideItems: empty fields are kept.
OverrideItems_KeepEmpty(env, var) ==
    IF var \in DOMAIN env THEN Split(env[var], SPACE) ELSE <<>>

\* [item for item in os.environ[var].split(" ") if item], [] if var is unset
OverrideItems(env, var) ==
    IF var \in DOMAIN env THEN NonEmpty(Split(env[var], SPACE)) ELSE <<>>

\* The feature flags of cmake_args, before the override.
FeatureCMakeArgs(env, cfg) ==
    << <<"-DBUCK2=">>, <<"-DPYTHON_EXECUTABLE=">>, <<"-DCMAKE_PREFIX_PATH=">>,
       <<"-DCMAKE_BUILD_TYPE=", cfg>>,
       <<"-DEXECUTORCH_ENABLE_LOGGING=ON">>, <<"-DEXECUTORCH_LOG_LEVEL=Info">>,
       <<"-DCMAKE_OSX_DEPLOYMENT_TARGET=10.15">>,
       <<"-DEXECUTORCH_SEPARATE_FLATCC_HOST_PROJECT=OFF">> >>
    \o (IF ShouldBuildPybindings(env)
        THEN << <<"-DEXECUTORCH_BUILD_PYBIND=ON">>,
                <<"-DEXECUTORCH_BUILD_KERNELS_QUANTIZED=ON">>,
                <<"-DEXECUTORCH_BUILD_KERNELS_QUANTIZED_AOT=ON">> >>
             \o (IF ShouldBuildTraining(env)
                 THEN << <<"-DEXECUTORCH_BUILD_EXTENSION_TRAINING=ON">> >>
                 ELSE <<>>)
        ELSE <<>>)
    \o (IF ShouldBuildLlamaCustomOps(env)
        THEN << <<"-DEXECUTORCH_BUILD_KERNELS_CUSTOM=ON">>,
                <<"-DEXECUTORCH_BUILD_KERNELS_CUSTOM_AOT=ON">>,
                <<"-DEXECUTORCH_BUILD_KERNELS_QUANTIZED=ON">>,
                <<"-DEXECUTORCH_BUILD_KERNELS_QUANTIZED_AOT=ON">> >>
        ELSE <<>>)

\* The feature flags of build_args, before the override.
FeatureBuildArgs(env) ==
    << <<"-j">> >>
    \o (IF ShouldBuildPybindings(env)
        THEN (IF ShouldBuildTraining(env)
              THEN << <<"--target">>, <<"_training_lib">> >> ELSE <<>>)
             \o << <<"--target">>, <<"portable_lib">> >>
        ELSE <<>>)
    \o (IF ShouldBuildLlamaCustomOps(env)
        THEN << <<"--target">>, <<"custom_ops_aot_lib">>,
                <<"--target">>, <<"quantized_ops_aot_lib">> >>
        ELSE <<>>)

\* cmake_args as CustomBuild.run assembles it.
AssembleCMakeArgs(env, cfg) ==
    FeatureCMakeArgs(env, cfg) \o OverrideItems(env, "CMAKE_ARGS")

\* build_args as CustomBuild.run assembles it.
AssembleBuildArgs(env, cfg) ==
    FeatureBuildArgs(env) \o OverrideItems(env, "CMAKE_BUILD_ARGS")
        \o << <<"--config">>, <<cfg>> >>

\* Mutant of ConfigureErrorMessage: the remediation is always appended.
ConfigureErrorMessage_Always(stderr) == stderr \o <<NEWLINE>> \o Remediation

\* The message of the exception raised when the configure step fails.
ConfigureErrorMessage(stderr) ==
    LET additional_log == IF Contains(stderr, MissingSourceSignature)
                          THEN Remediation ELSE <<>>
    IN  stderr \o <<NEWLINE>> \o additional_log

\* ------------------------------------------------------------------------
\* Buck2EnvironmentFixer
\* ------------------------------------------------------------------------
\* os.environ is a function whose domain is the set of variables that are
\* set; saved_env likewise.
EmptyEnv == [v \in {} |-> <<>>]
Without(env, var) == [v \in (DOMAIN env) \ {var} |-> env[v]]
With(env, var, val) == [v \in (DOMAIN env) \cup {var} |-> IF v = var THEN val ELSE env[v]]

\* The condition of __enter__.
FixerApplies(os, is_root, env) == os # "nt" /\ is_root /\ "HOME" \in DOMAIN env

\* __enter__: the environment and saved_env after it.
FixerEnter(os, is_root, env) ==
    IF FixerApplies(os, is_root, env)
    THEN [env |-> Without(env, "HOME"), saved |-> With(EmptyEnv, "HOME", env["HOME"])]
    ELSE [env |-> env, saved |-> EmptyEnv]

\* Mutant of FixerExit: nothing is restored.
FixerExit_NoRestore(env, saved) == env

\* __exit__: the environment after it.
FixerExit(env, saved) ==
    IF "HOME" \in DOMAIN saved THEN With(env, "HOME", saved["HOME"]) ELSE env

\* ------------------------------------------------------------------------
\* File operations of the install commands
\* ------------------------------------------------------------------------
\* os.access(path, os.W_OK) on an existing file.
AccessW(os, is_root, files, p) ==
    (os # "nt" /\ is_root) \/ "w" \in files[Abs(p)].mode

\* Command.copy_file(src, dst): mode and data of the source, unless dry_run.
CopyFile(files, src, dst, dry) ==
    IF dry THEN files
    ELSE [q \in (DOMAIN files) \cup {Abs(dst)} |->
             IF q = Abs(dst) THEN files[Abs(src)] ELSE files[q]]

\* The permission fix that ends build_extension:
\*   if not os.access(src_file, os.W_OK):
\*       os.chmod(src_file, os.stat(src_file).st_mode | 0o222)
MakeWritable(os, is_root, files, src_file) ==
    IF ~AccessW(os, is_root, files, src_file)
    THEN [files EXCEPT ![Abs(src_file)].mode = @ \cup {"w"}]
    ELSE files

\* Mutant of ShouldCopy: only optional descriptors are copied.
ShouldCopy_OnlyOptional(exists, optional) == exists /\ optional

\* The condition under which copy_extensions_to_source copies.
ShouldCopy(exists, optional) == exists \/ ~optional

\* Mutant of InplaceFile: the file keeps the base name of the source.
InplaceFile_SourceName(package_dir, regular_file, dst_path) ==
    Join(package_dir, <<BaseName(regular_file)>>)

\* inplace_file of copy_extensions_to_source, given the two resolved paths.
InplaceFile(package_dir, regular_file, dst_path) ==
    Join(package_dir, <<BaseName(dst_path)>>)

\* Mutant of AfterConfigure: the exit status is not checked (check=False).
AfterConfigure_Unchecked(returncode) == "building"

\* subprocess.run(..., check=True): where CustomBuild.run goes on after the
\* configure step returned.
AfterConfigure(returncode) == IF returncode = 0 THEN "building" ELSE "failed"

\* ------------------------------------------------------------------------
\* Inputs: descriptors, environments, build outputs, diagnostics
\* ------------------------------------------------------------------------
ReadOnlyMode == {"r", "x"}
WritableMode == {"r", "w", "x"}

\* Descriptors in the shapes get_ext_modules builds them.
FlatcFile ==
    BuiltFile(<<CACHE_DIR_TOKEN, SLASH, "out", SLASH, BUILD_TYPE_TOKEN, SLASH, "flatc">>,
              <<"executorch", SLASH, "bin", SLASH>>)
InitFile ==
    BuiltFile(<<"build", SLASH, "init", ".in">>,
              <<"executorch", SLASH, "bin", SLASH, "__init__", ".py">>)
GlobFile ==
    BuiltFile(<<CACHE_DIR_TOKEN, SLASH, "out", SLASH, STAR>>, <<"pkg", SLASH>>)
LibExtension ==
    BuiltExtension(<<"out", SLASH, "lib", ".so">>, <<"executorch", DOT, "mod">>)

Descriptors == {FlatcFile, InitFile, GlobFile, LibExtension}

\* Every list of 1..n descriptors; get_ext_modules appends each descriptor
\* once.
ExtLists(n) ==
    UNION {{l \in [1..k -> Descriptors] :
               \A i, j \in 1..k : l[i] = l[j] => i = j} : k \in 1..n}

\* What the build step may leave under the cache directory.
OutputCandidates ==
    { << <<"out">>, <<"flatc">> >>,
      << <<"out">>, <<"Release">>, <<"flatc">> >>,
      << <<"out">>, <<"lib", ".so">> >>,
      << <<"out">>, <<"lib", ".dylib">> >> }

OutputTrees ==
    {[files |-> S, mode |-> m] :
        S \in (SUBSET OutputCandidates) \ {{}}, m \in {ReadOnlyMode, WritableMode}}
    \cup {[files |-> {}, mode |-> WritableMode]}

\* The file system after the build step wrote its outputs.
AddOutputs(files, tree) ==
    LET new == {CMakeCacheDir \o f : f \in tree.files}
    IN  [q \in (DOMAIN files) \cup new |->
            IF q \in new THEN [mode |-> tree.mode, data |-> q] ELSE files[q]]

\* The source tree's own file, and the cache descriptor of an earlier run.
InitInFile == CWD \o << <<"build">>, <<"init", ".in">> >>
SourceFiles(hasInit, hasCache) ==
    [q \in (IF hasInit THEN {InitInFile} ELSE {})
           \cup (IF hasCache THEN {CMakeCacheFile} ELSE {}) |->
        [mode |-> {"r", "w"}, data |-> q]]

\* Environments: opt maps a variable to {} (unset) or {value}.
EnvFrom(opt) ==
    [v \in {w \in DOMAIN opt : opt[w] # {}} |-> CHOOSE t \in opt[v] : TRUE]
Unset == {}
OverrideTexts == TextsUpTo({"a", "b", SPACE, TAB}, MaxOverrideLen)
StderrTexts == TextsUpTo({"Cannot find", " source file", "x"}, MaxStderrLen)

\* ------------------------------------------------------------------------
\* State
\* ------------------------------------------------------------------------
VARIABLES
    os_name,         \* os.name
    euid_root,       \* os.geteuid() == 0
    environ,         \* os.environ
    build_debug,     \* the build command's debug option
    ext_debug,       \* the build_ext command's own debug option
    dry_run,         \* the distribution's dry_run option
    editable_mode,   \* InstallerBuildExt.editable_mode
    inplace,         \* InstallerBuildExt.inplace
    extensions,      \* InstallerBuildExt.extensions
    fs,              \* regular files: absolute path -> [mode, data]
    pc,              \* where the top-level command stands
    entry,           \* the top-level command
    cfg,             \* cfg of CustomBuild.run
    cmake_args,      \* cmake_args of CustomBuild.run
    build_args,      \* build_args of CustomBuild.run
    saved_env,       \* Buck2EnvironmentFixer.saved_env
    env_on_entry,    \* <<os.environ>> at the entry of the with block
    cmake_cache_dir, \* <<>>: the build command has no such attribute, else <<dir>>
    ran_build,       \* InstallerBuildExt._ran_build
    next_ext,        \* index of the descriptor the running loop is at
    raised,          \* <<>>, or <<the exception that ended the command>>
    log,             \* what CustomBuild.run did, in order
    copies,          \* the copy_file calls of the install loops, in order
    resolves         \* the _BaseExtension.src_path calls, in order

inputs == <<os_name, euid_root, build_debug, ext_debug, dry_run, editable_mode,
            inplace, extensions>>
flags == <<cfg, cmake_args, build_args>>
vars == <<inputs, environ, fs, pc, entry, flags, saved_env, env_on_entry,
          cmake_cache_dir, ran_build, next_ext, raised, log, copies, resolves>>

\* build_ext.finalize_options: an unset debug option is the build command's.
InstallerDebug == IF ext_debug = "None" THEN build_debug ELSE ext_debug

\* The installer as src_path and dst_path see it.
Installer(inplace_now) ==
    [cache |-> cmake_cache_dir, debug |-> InstallerDebug, os_name |-> os_name,
     env |-> environ, files |-> DOMAIN fs, inplace |-> inplace_now]

\* State after construction, but for the inputs.
InitControl ==
    /\ pc = "start"
    /\ entry = "none"
    /\ cfg = "unset"
    /\ cmake_args = <<>>
    /\ build_args = <<>>
    /\ saved_env = EmptyEnv
    /\ env_on_entry = <<>>
    /\ cmake_cache_dir = <<>>
    /\ ran_build = FALSE
    /\ next_ext = 1
    /\ raised = <<>>
    /\ log = <<>>
    /\ copies = <<>>
    /\ resolves = <<>>

\* setuptools sets inplace whenever it sets editable_mode.
ModeOptions == {<<TRUE, TRUE>>, <<FALSE, TRUE>>, <<FALSE, FALSE>>}

\* Inputs of the orchestration: platform, privileges, HOME, DEBUG, dry run, a
\* cache descriptor left by an earlier run; one list of descriptors.
Init ==
    /\ InitControl
    /\ os_name \in {"posix", "nt"}
    /\ euid_root \in BOOLEAN
    /\ \E home \in {Unset, {<<>>}, {<<"/root">>}},
          dbg \in {Unset, {<<"1">>}},
          extra \in {Unset, {<<"a">>}} :
          environ = EnvFrom([HOME |-> home, DEBUG |-> dbg, CMAKE_BUILD_ARGS |-> extra])
    /\ build_debug = "None"
    /\ ext_debug = "None"
    /\ dry_run \in BOOLEAN
    /\ \E m \in ModeOptions : editable_mode = m[1] /\ inplace = m[2]
    /\ extensions = <<FlatcFile, InitFile>>
    /\ fs \in {SourceFiles(TRUE, c) : c \in BOOLEAN}

\* ------------------------------------------------------------------------
\* Top-level commands
\* ------------------------------------------------------------------------
\* "build" given on the command line: CustomBuild.run starts.
RunBuildCommand ==
    /\ pc = "start"
    /\ ~editable_mode
    /\ pc' = "build_run"
    /\ entry' = "build"
    /\ UNCHANGED <<inputs, environ, fs, flags, saved_env, env_on_entry,
                   cmake_cache_dir, ran_build, next_ext, raised, log, copies, resolves>>

\* "build_ext" run on its own (by the editable install, or on the command
\* line): InstallerBuildExt.run starts.
RunBuildExtCommand ==
    /\ pc = "start"
    /\ pc' = "ext_run"
    /\ entry' = "build_ext"
    /\ UNCHANGED <<inputs, environ, fs, flags, saved_env, env_on_entry,
                   cmake_cache_dir, ran_build, next_ext, raised, log, copies, resolves>>

\* ------------------------------------------------------------------------
\* InstallerBuildExt.run
\* ------------------------------------------------------------------------
\* Mutant of InstallerRun: no _ran_build guard, every call in editable mode
\* runs the build command.
InstallerRun_NoGuard ==
    /\ pc = "ext_run"
    /\ IF editable_mode
       THEN /\ ran_build' = TRUE
            /\ pc' = "build_run"
       ELSE /\ pc' = "build_extensions"
            /\ UNCHANGED ran_build
    /\ next_ext' = 1
    /\ UNCHANGED <<inputs, environ, fs, entry, flags, saved_env, env_on_entry,
                   cmake_cache_dir, raised, log, copies, resolves>>

\* The call returns at once when _ran_build is set (the build command then
\* goes on to return); in editable mode it sets _ran_build and runs the
\* build command; otherwise it goes straight to build_ext.run.
InstallerRun ==
    /\ pc = "ext_run"
    /\ IF ran_build
       THEN /\ pc' = "build_returned"
            /\ UNCHANGED ran_build
       ELSE IF editable_mode
            THEN /\ ran_build' = TRUE
                 /\ pc' = "build_run"
            ELSE /\ pc' = "build_extensions"
                 /\ UNCHANGED ran_build
    /\ next_ext' = 1
    /\ UNCHANGED <<inputs, environ, fs, entry, flags, saved_env, env_on_entry,
                   cmake_cache_dir, raised, log, copies, resolves>>

\* run_command("build") returned into InstallerBuildExt.run, which goes on
\* to build_ext.run.
BuildCommandReturns ==
    /\ pc = "build_returned"
    /\ pc' = "build_extensions"
    /\ UNCHANGED <<inputs, environ, fs, entry, flags, saved_env, env_on_entry,
                   cmake_cache_dir, ran_build, next_ext, raised, log, copies, resolves>>

\* ------------------------------------------------------------------------
\* CustomBuild.run
\* ------------------------------------------------------------------------
\* Lines 616-705: the build type and the two flag lists.
AssembleFlags ==
    /\ pc = "build_run"
    /\ cfg' = get_build_type(build_debug, environ)
    /\ cmake_args' = AssembleCMakeArgs(environ, cfg')
    /\ build_args' = AssembleBuildArgs(environ, cfg')
    /\ log' = Append(log, [ev |-> "assemble", env |-> environ])
    /\ pc' = "assembled"
    /\ UNCHANGED <<inputs, environ, fs, entry, saved_env, env_on_entry,
                   cmake_cache_dir, ran_build, next_ext, raised, copies, resolves>>

\* The cache descriptor after lines 709-713.
DeleteCacheFile(files, dry) ==
    IF dry THEN files
    ELSE [q \in (DOMAIN files) \ {CMakeCacheFile} |-> files[q]]

\* os.environ after lines 715-717.
SetPythonPath(env) ==
    With(env, "PYTHONPATH",
         <<"site-packages", ";">>
            \o (IF "PYTHONPATH" \in DOMAIN env THEN env["PYTHONPATH"] ELSE <<>>))

\* Lines 709-731: the cache descriptor is deleted, PYTHONPATH is set, the
\* with block is entered and cmake's configure step is started.
BeginConfigure ==
    /\ pc = "assembled"
    /\ LET files == DeleteCacheFile(fs, dry_run)
           env   == SetPythonPath(environ)
           fixer == FixerEnter(os_name, euid_root, env)
       IN  /\ fs' = files
           /\ env_on_entry' = <<env>>
           /\ environ' = fixer.env
           /\ saved_env' = fixer.saved
           /\ log' = Append(log, [ev |-> "configure",
                                  args |-> cmake_args,
                                  stale_cache |-> CMakeCacheFile \in DOMAIN files,
                                  home_set |-> "HOME" \in DOMAIN fixer.env])
    /\ pc' = "configuring"
    /\ UNCHANGED <<inputs, entry, flags, cmake_cache_dir, ran_build, next_ext,
                   raised, copies, resolves>>

\* cmake's configure step returned.  The with block is left either way
\* (__exit__ runs); a non-zero status raises the one Exception, a zero status
\* lets run go on to spawn the build step.
ConfigureReturns(returncode, stderr) ==
    /\ pc = "configuring"
    /\ environ' = FixerExit(environ, saved_env)
    /\ pc' = AfterConfigure(returncode)
    /\ IF pc' = "failed"
       THEN /\ raised' = <<[type |-> "Exception", where |-> "configure",
                            msg |-> ConfigureErrorMessage(stderr)]>>
            /\ log' = Append(log, [ev |-> "configure_returned",
                                   returncode |-> returncode, stderr |-> stderr])
            /\ fs' = fs
       ELSE /\ raised' = raised
            /\ log' = log \o << [ev |-> "configure_returned",
                                 returncode |-> returncode, stderr |-> stderr],
                                [ev |-> "build", args |-> build_args,
                                 launched |-> ~dry_run] >>
            /\ fs' = [q \in (DOMAIN fs) \cup {CMakeCacheFile} |->
                         IF q = CMakeCacheFile
                         THEN [mode |-> {"r", "w"}, data |-> q] ELSE fs[q]]
    /\ UNCHANGED <<inputs, entry, flags, saved_env, env_on_entry,
                   cmake_cache_dir, ran_build, next_ext, copies, resolves>>

ConfigureSucceeds == ConfigureReturns(0, <<>>)

ConfigureFails == \E stderr \in StderrTexts : ConfigureReturns(1, stderr)

\* The build step returned zero (under dry_run spawn starts nothing and
\* returns): its outputs are on disk, the cache directory is published on
\* the command and build.run runs the sub-commands, build_ext among them.
BuildSucceeds ==
    /\ pc = "building"
    /\ \E tree \in OutputTrees :
          /\ dry_run => tree.files = {}
          /\ fs' = AddOutputs(fs, tree)
    /\ cmake_cache_dir' = <<CMakeCacheDir>>
    /\ log' = log \o << [ev |-> "build_returned", returncode |-> 0],
                        [ev |-> "subcommands"] >>
    /\ pc' = "ext_run"
    /\ UNCHANGED <<inputs, environ, entry, flags, saved_env, env_on_entry,
                   ran_build, next_ext, raised, copies, resolves>>

\* Mutant of BuildFails: the cache directory is published before the build
\* step is known to have succeeded.
BuildFails_Publishes ==
    /\ pc = "building"
    /\ ~dry_run
    /\ raised' = <<[type |-> "DistutilsExecError", where |-> "build"]>>
    /\ log' = Append(log, [ev |-> "build_returned", returncode |-> 1])
    /\ pc' = "failed"
    /\ cmake_cache_dir' = <<CMakeCacheDir>>
    /\ UNCHANGED <<inputs, environ, fs, entry, flags, saved_env, env_on_entry,
                   ran_build, next_ext, copies, resolves>>

\* The build step returned non-zero: spawn raises, run ends there.
BuildFails ==
    /\ pc = "building"
    /\ ~dry_run
    /\ raised' = <<[type |-> "DistutilsExecError", where |-> "build"]>>
    /\ log' = Append(log, [ev |-> "build_returned", returncode |-> 1])
    /\ pc' = "failed"
    /\ UNCHANGED <<inputs, environ, fs, entry, flags, saved_env, env_on_entry,
                   cmake_cache_dir, ran_build, next_ext, copies, resolves>>

\* ------------------------------------------------------------------------
\* The install loops of build_ext.run
\* ------------------------------------------------------------------------
\* The loop is past descriptor next_ext: the next one, or the end of the loop.
\* build_ext.run calls copy_extensions_to_source after build_extensions when
\* the command is in place; after the last loop the command is done.
Advance(loop) ==
    IF next_ext < Len(extensions)
    THEN /\ next_ext' = next_ext + 1
         /\ pc' = pc
    ELSE /\ next_ext' = 1
         /\ pc' = IF loop = "build_extensions" /\ inplace
                  THEN "copy_to_source" ELSE "done"

\* An exception leaves the loop and ends the command.
Fail(type, where) ==
    /\ raised' = <<[type |-> type, where |-> where]>>
    /\ pc' = "failed"
    /\ UNCHANGED next_ext

\* InstallerBuildExt.build_extension(ext) for the descriptor the loop is at
\* (build_ext.run clears inplace while build_extensions runs), all steps
\* succeeding.
BuildExtensionCopies ==
    /\ pc = "build_extensions"
    /\ LET ext  == extensions[next_ext]
           inst == Installer(FALSE)
           src  == SrcPath(ext, inst)
           dst  == DstPath(ext, inst)
       IN  /\ src.ok
           /\ dst.ok
           /\ IsFile(DOMAIN fs, src.path)
           /\ fs' = MakeWritable(os_name, euid_root,
                                 CopyFile(fs, src.path, dst.path, dry_run),
                                 src.path)
           /\ copies' = Append(copies, [by |-> "build_extension", ext |-> next_ext,
                                        src |-> src.path, dst |-> dst.path])
           /\ resolves' = resolves \o ResolveCalls(ext, inst)
    /\ Advance("build_extensions")
    /\ UNCHANGED <<inputs, environ, entry, flags, saved_env, env_on_entry,
                   cmake_cache_dir, ran_build, raised, log>>

\* build_extension raises: src_path or dst_path fails to resolve, or
\* copy_file fails (the source is no regular file, or an I/O error).
BuildExtensionFails ==
    /\ pc = "build_extensions"
    /\ LET ext  == extensions[next_ext]
           inst == Installer(FALSE)
           src  == SrcPath(ext, inst)
           dst  == DstPath(ext, inst)
       IN  /\ IF ~src.ok THEN Fail(src.err, "build_extension")
              ELSE IF ~dst.ok THEN Fail(dst.err, "build_extension")
              ELSE Fail("DistutilsFileError", "build_extension")
           /\ resolves' = resolves \o ResolveCalls(ext, inst)
    /\ UNCHANGED <<inputs, environ, fs, entry, flags, saved_env, env_on_entry,
                   cmake_cache_dir, ran_build, log, copies>>

\* os.path.exists(path)
Exists(files, p) == Abs(p) \in Entries(files)

\* One turn of the loop of copy_extensions_to_source (inplace is restored),
\* all steps succeeding.  No descriptor of get_ext_modules needs a stub.
CopyToSourceCopies ==
    /\ pc = "copy_to_source"
    /\ LET ext  == extensions[next_ext]
           inst == Installer(inplace)
           package_dir  == InplaceDir(ext)
           regular_file == SrcPath(ext, inst)
           dst          == DstPath(ext, inst)
       IN  /\ regular_file.ok
           /\ dst.ok
           /\ resolves' = resolves \o ResolveCalls(ext, inst)
           /\ LET inplace_file == InplaceFile(package_dir, regular_file.path, dst.path)
              IN  IF ShouldCopy(Exists(DOMAIN fs, regular_file.path), ext.optional)
                  THEN /\ IsFile(DOMAIN fs, regular_file.path)
                       /\ fs' = CopyFile(fs, regular_file.path, inplace_file, dry_run)
                       /\ copies' = Append(copies,
                                       [by |-> "copy_extensions_to_source",
                                        ext |-> next_ext,
                                        src |-> regular_file.path,
                                        dst |-> inplace_file])
                  ELSE UNCHANGED <<fs, copies>>
    /\ Advance("copy_to_source")
    /\ UNCHANGED <<inputs, environ, entry, flags, saved_env, env_on_entry,
                   cmake_cache_dir, ran_build, raised, log>>

\* copy_extensions_to_source raises: src_path or dst_path fails to resolve,
\* or copy_file fails.
CopyToSourceFails ==
    /\ pc = "copy_to_source"
    /\ LET ext  == extensions[next_ext]
           inst == Installer(inplace)
           regular_file == SrcPath(ext, inst)
           dst          == DstPath(ext, inst)
       IN  /\ IF ~regular_file.ok
              THEN Fail(regular_file.err, "copy_extensions_to_source")
              ELSE IF ~dst.ok THEN Fail(dst.err, "copy_extensions_to_source")
              ELSE /\ ShouldCopy(Exists(DOMAIN fs, regular_file.path), ext.optional)
                   /\ Fail("DistutilsFileError", "copy_extensions_to_source")
           /\ resolves' = resolves \o ResolveCalls(ext, inst)
    /\ UNCHANGED <<inputs, environ, fs, entry, flags, saved_env, env_on_entry,
                   cmake_cache_dir, ran_build, log, copies>>

\* ------------------------------------------------------------------------
\* Specifications
\* ------------------------------------------------------------------------
Next ==
    \/ RunBuildCommand
    \/ RunBuildExtCommand
    \/ InstallerRun
    \/ BuildCommandReturns
    \/ AssembleFlags
    \/ BeginConfigure
    \/ ConfigureSucceeds
    \/ ConfigureFails
    \/ BuildSucceeds
    \/ BuildFails
    \/ BuildExtensionCopies
    \/ BuildExtensionFails
    \/ CopyToSourceCopies
    \/ CopyToSourceFails

\* The orchestration under every platform, privilege and HOME.
Spec == Init /\ [][Next]_vars

\* Inputs of the installation: every list of descriptors, on both platforms
\* and for both build types where the platform keeps the build type.
InitInstall ==
    /\ InitControl
    /\ \E p \in {<<"posix", Unset>>, <<"nt", Unset>>, <<"nt", {<<"1">>}>>} :
          /\ os_name = p[1]
          /\ environ = EnvFrom([DEBUG |-> p[2]])
    /\ euid_root = FALSE
    /\ build_debug = "None"
    /\ ext_debug = "None"
    /\ dry_run = FALSE
    /\ \E m \in ModeOptions : editable_mode = m[1] /\ inplace = m[2]
    /\ extensions \in ExtLists(MaxExts)
    /\ fs = SourceFiles(TRUE, FALSE)

SpecInstall == InitInstall /\ [][Next]_vars

\* Inputs of the flag assembly: every override text for one of the two
\* override variables and a short one for the other, every feature set, both
\* build types.
InitFlags ==
    /\ InitControl
    /\ os_name = "posix"
    /\ euid_root = FALSE
    /\ \E wide \in {{t} : t \in OverrideTexts} \cup {Unset},
          short \in {Unset, {<<"b", SPACE, "a">>}},
          swap \in BOOLEAN,
          pybind \in {Unset, {<<"ON">>}},
          training \in {Unset, {<<"1">>}},
          custom \in {Unset, {<<"OFF">>}},
          dbg \in {Unset, {<<"1">>}} :
          environ = EnvFrom([CMAKE_ARGS |-> IF swap THEN short ELSE wide,
                             CMAKE_BUILD_ARGS |-> IF swap THEN wide ELSE short,
                             EXECUTORCH_BUILD_PYBIND |-> pybind,
                             EXECUTORCH_BUILD_TRAINING |-> training,
                             EXECUTORCH_BUILD_KERNELS_CUSTOM_AOT |-> custom,
                             DEBUG |-> dbg])
    /\ build_debug = "None"
    /\ ext_debug = "None"
    /\ dry_run = FALSE
    /\ editable_mode = FALSE
    /\ inplace = FALSE
    /\ extensions = <<FlatcFile, InitFile>>
    /\ fs = SourceFiles(TRUE, FALSE)

\* CustomBuild.run up to the assembled flag lists.
NextFlags ==
    \/ RunBuildCommand
    \/ AssembleFlags

SpecFlags == InitFlags /\ [][NextFlags]_vars

\* Source patterns of BuiltFile descriptors: every text of placeholders,
\* separators and one name.
PatternTexts ==
    TextsUpTo({CACHE_DIR_TOKEN, BUILD_TYPE_TOKEN, SLASH, "flatc"}, MaxPatternLen)
        \ {<<>>}

\* Sources of BuiltExtension descriptors: with and without the ".so" suffix,
\* literal and with a wildcard.
LibPatterns ==
    { <<"out", SLASH, "lib", ".so">>,
      <<"out", SLASH, "lib", ".dylib">>,
      <<"out", SLASH, STAR, ".so">>,
      <<"out", SLASH, STAR>>,
      <<"out", SLASH, "flatc">> }

ResolveDescriptors ==
    {BuiltFile(p, <<"pkg", SLASH>>) : p \in PatternTexts}
        \cup {BuiltExtension(p, <<"executorch", DOT, "mod">>) : p \in LibPatterns}

\* The debug option given to build_ext ("None": not given, "True": --debug)
\* with the DEBUG variable of the environment.
DebugOptions == {<<"None", Unset>>, <<"None", {<<"1">>}>>, <<"True", Unset>>}

\* Inputs of the resolution: one descriptor of any pattern, both platforms,
\* the debug option of build_ext and DEBUG.
InitResolve ==
    /\ InitControl
    /\ os_name \in {"posix", "nt"}
    /\ euid_root = FALSE
    /\ build_debug = "None"
    /\ \E d \in DebugOptions :
          /\ ext_debug = d[1]
          /\ environ = EnvFrom([DEBUG |-> d[2]])
    /\ dry_run = FALSE
    /\ \E m \in {<<TRUE, TRUE>>, <<FALSE, FALSE>>} :
          editable_mode = m[1] /\ inplace = m[2]
    /\ extensions \in {<<d>> : d \in ResolveDescriptors}
    /\ fs = SourceFiles(TRUE, FALSE)

SpecResolve == InitResolve /\ [][Next]_vars

\* Inputs of the extension-module resolution: one BuiltExtension of every
\* source, both platforms, every mode.
InitLib ==
    /\ InitControl
    /\ os_name \in {"posix", "nt"}
    /\ euid_root = FALSE
    /\ build_debug = "None"
    /\ ext_debug = "None"
    /\ environ = EmptyEnv
    /\ dry_run = FALSE
    /\ \E m \in ModeOptions : editable_mode = m[1] /\ inplace = m[2]
    /\ extensions \in {<<BuiltExtension(p, <<"executorch", DOT, "mod">>)>> :
                          p \in LibPatterns}
    /\ fs = SourceFiles(TRUE, FALSE)

SpecLib == InitLib /\ [][Next]_vars

\* ------------------------------------------------------------------------
\* Claims
\* ------------------------------------------------------------------------
\* The files and directories the substituted pattern of ext matches under
\* its search root, in the current state ({} while a pattern that names the
\* cache directory has no cache directory to search).
MatchesNow(ext) ==
    IF Contains(ext.src, <<CACHE_DIR_TOKEN>>) /\ cmake_cache_dir = <<>>
    THEN {}
    ELSE SrcMatches(ext, Installer(FALSE))

\* C1: _BaseExtension.src_path returns a path only when the substituted,
\* glob-expanded pattern matches exactly one file, and then returns that
\* file; with zero or with two or more matches it fails and returns none of
\* the candidates.  Stated of every descriptor of the list in every state,
\* and of every source the install loops copied from.
C1_ResolveExactlyOne ==
    /\ \A i \in 1..Len(extensions) :
          LET ext == extensions[i]
              r   == BaseSrcPath(ext, Installer(FALSE))
          IN  /\ r.ok => MatchesNow(ext) = {r.path}
              /\ Cardinality(MatchesNow(ext)) # 1 => ~r.ok
    /\ \A k \in 1..Len(copies) :
          copies[k].by = "build_extension"
              /\ extensions[copies[k].ext].kind = "BuiltFile"
          => MatchesNow(extensions[copies[k].ext]) = {copies[k].src}

\* C1 witness: the install stopped with a ValueError at a descriptor whose
\* pattern matches two or more files, after an earlier descriptor was
\* resolved to its single match and copied.
C1_Witness ==
    /\ pc = "failed"
    /\ raised[1].type = "ValueError"
    /\ Cardinality(MatchesNow(extensions[next_ext])) >= 2
    /\ \E k \in 1..Len(copies) :
          MatchesNow(extensions[copies[k].ext]) = {copies[k].src}

\* C2: once the with block of Buck2EnvironmentFixer is left, by return or by
\* the exception of a failed configure step, HOME is set exactly if it was
\* set on entry, and to the value it had on entry.
C2_HomeRestored ==
    (env_on_entry # <<>> /\ pc # "configuring")
    => LET before == env_on_entry[1]
       IN  /\ ("HOME" \in DOMAIN environ) <=> ("HOME" \in DOMAIN before)
           /\ "HOME" \in DOMAIN before => environ["HOME"] = before["HOME"]

\* C2 witness: as superuser on posix with HOME set, so that __enter__ removed
\* HOME, the block was left by the exception of a failed configure step.
C2_Witness ==
    /\ pc = "failed"
    /\ raised[1].where = "configure"
    /\ euid_root /\ os_name = "posix"
    /\ "HOME" \in DOMAIN saved_env
    /\ ~log[2].home_set
    /\ "HOME" \in DOMAIN environ

\* The steps of a complete CustomBuild.run, in order.
FullRun == <<"assemble", "configure", "configure_returned", "build",
             "build_returned", "subcommands">>

\* C4: the steps of CustomBuild.run occur in the order assemble, configure,
\* build, done; build is invoked only after configure returned zero; the
\* cache directory is exposed and the sub-commands run only after build
\* returned zero; a non-zero configure or build is the last step of the run,
\* which is then failed with no cache directory exposed and nothing installed.
C4_StepOrder ==
    /\ Len(log) <= Len(FullRun)
    /\ \A i \in 1..Len(log) :
          /\ log[i].ev = FullRun[i]
          /\ log[i].ev = "build" => log[i - 1].returncode = 0
          /\ log[i].ev = "subcommands" => log[i - 1].returncode = 0
          /\ (log[i].ev \in {"configure_returned", "build_returned"}
                 /\ log[i].returncode # 0)
             => /\ i = Len(log)
                /\ pc = "failed"
                /\ cmake_cache_dir = <<>>
                /\ copies = <<>>
    /\ cmake_cache_dir # <<>>
       => Len(log) = Len(FullRun) /\ log[Len(FullRun) - 1].returncode = 0

\* C4 witness: configure succeeded, build was invoked and failed; the run is
\* failed with the cache directory not exposed.
C4_Witness ==
    /\ pc = "failed"
    /\ raised[1].where = "build"
    /\ Len(log) = Len(FullRun) - 1
    /\ log[Len(log)].returncode # 0
    /\ cmake_cache_dir = <<>>

\* C5: no configure command is started while a cache descriptor left by an
\* earlier invocation is still in the cache directory.
C5_NoStaleCache ==
    \A i \in 1..Len(log) : log[i].ev = "configure" => ~log[i].stale_cache

\* Whether the text holds the missing-source signature: its two tokens, one
\* right after the other.
HasSignature(text) ==
    \E j \in 1..(Len(text) - 1) :
        text[j] = "Cannot find" /\ text[j + 1] = " source file"

\* C7: a configure step that exits non-zero raises exactly one Exception; its
\* message starts with the captured standard-error text, and ends with the
\* remediation message exactly when that text holds the signature.
C7_ConfigureError ==
    \A i \in 1..Len(log) :
        (log[i].ev = "configure_returned" /\ log[i].returncode # 0)
        => /\ Len(raised) = 1
           /\ raised[1].type = "Exception"
           /\ LET err == log[i].stderr
                  msg == raised[1].msg
              IN  IF HasSignature(err)
                  THEN msg = err \o <<NEWLINE>> \o Remediation
                  ELSE msg = err \o <<NEWLINE>>

\* C7 witness: the configure step failed with a text that holds the
\* signature after other text, and the message raised ends with the
\* remediation.
C7_Witness ==
    /\ pc = "failed"
    /\ raised[1].where = "configure"
    /\ HasSignature(log[3].stderr)
    /\ log[3].stderr[1] = "x"
    /\ EndsWith(raised[1].msg, Remediation)

\* The copy_file calls of one install loop, in order.
CopiesBy(loop) == SelectSeq(copies, LAMBDA c : c.by = loop)

\* C3: after a staged install of a descriptor (build_extension returned), the
\* destination file carries the write permission, whatever the mode of the
\* source was.
C3_DestinationWritable ==
    \A k \in 1..Len(copies) :
        (copies[k].by = "build_extension" /\ Abs(copies[k].dst) \in DOMAIN fs)
        => "w" \in fs[Abs(copies[k].dst)].mode

\* Loop has one copy per descriptor, in the order of the list, each from a
\* file its descriptor resolves to and each present at its destination
\* (unless a dry run).
Complete(loop) ==
    LET done == CopiesBy(loop)
    IN  /\ Len(done) = Len(extensions)
        /\ \A i \in 1..Len(done) :
              /\ done[i].ext = i
              /\ SrcPath(extensions[i], Installer(FALSE)) = Ok(done[i].src)
              /\ ~dry_run => Abs(done[i].dst) \in DOMAIN fs

\* C8: an install command finishes successfully only if every descriptor of
\* the list was resolved and copied, by build_extension and, in place, by
\* copy_extensions_to_source as well; a command that left a descriptor out
\* has failed with an exception, and it stopped at the first descriptor it
\* could not install.
C8_AllOrFail ==
    /\ pc = "done"
       => /\ raised = <<>>
          /\ Complete("build_extension")
          /\ inplace => Complete("copy_extensions_to_source")
    /\ (pc \in {"done", "failed"} /\ ~Complete("build_extension"))
       => pc = "failed" /\ Len(raised) = 1
    /\ (pc = "failed" /\ raised[1].where = "build_extension")
       => Len(CopiesBy("build_extension")) = next_ext - 1
    /\ (pc = "failed" /\ raised[1].where = "copy_extensions_to_source")
       => Len(CopiesBy("copy_extensions_to_source")) = next_ext - 1

\* C8 witness: an in-place install of two descriptors is done, both loops
\* having copied both.
C8_Witness ==
    /\ pc = "done"
    /\ inplace
    /\ Len(extensions) = MaxExts
    /\ Len(copies) = 2 * Len(extensions)

\* A path as text: its components joined by separators.
RECURSIVE JoinText(_)
JoinText(cs) ==
    IF cs = <<>> THEN <<>>
    ELSE IF Len(cs) = 1 THEN cs[1]
         ELSE cs[1] \o <<SLASH>> \o JoinText(Tail(cs))

PathText(p) == IF IsAbs(p) THEN <<SLASH>> \o JoinText(Tail(p)) ELSE JoinText(p)

\* C9: for a BuiltFile descriptor the staged destination is the path
\* root/destination/<base name of the resolved source> when destination ends
\* in a separator and root/destination, whatever the source is called, when
\* it does not.  Stated of every staged copy of a BuiltFile, the path being
\* read off the text root + "/" + destination (+ base name).
C9_StagedDestination ==
    \A k \in 1..Len(copies) :
        LET c   == copies[k]
            ext == extensions[c.ext]
            rootSlash == PathText(BuildLib) \o <<SLASH>>
        IN  (c.by = "build_extension" /\ ext.kind = "BuiltFile")
            => IF ext.dst[Len(ext.dst)] = SLASH
               THEN c.dst = PathOf(rootSlash \o ext.dst \o BaseName(c.src))
               ELSE c.dst = PathOf(rootSlash \o ext.dst)

\* C9 witness: a directory-style descriptor whose glob resolved to a file
\* named otherwise than the pattern, and an exact-file descriptor, were both
\* staged.
C9_Witness ==
    /\ \E k \in 1..Len(copies) :
          /\ copies[k].by = "build_extension"
          /\ extensions[copies[k].ext] = GlobFile
          /\ BaseName(copies[k].dst) = <<"flatc">>
    /\ \E k \in 1..Len(copies) :
          /\ copies[k].by = "build_extension"
          /\ extensions[copies[k].ext] = InitFile
          /\ BaseName(copies[k].dst) = <<"__init__", ".py">>

\* C10 as claimed: every file written by copy_extensions_to_source is
\* in the descriptor's in-place directory under the base name of the
\* resolved source.
C10_InplaceUnderSourceName ==
    \A k \in 1..Len(copies) :
        copies[k].by = "copy_extensions_to_source"
        => copies[k].dst = Join(InplaceDir(extensions[copies[k].ext]),
                                <<BaseName(copies[k].src)>>)

\* The last component of a text that names a file.
LastComponent(text) == SubSeq(text, LastIndexOf(text, SLASH) + 1, Len(text))
\* The last name of a dotted module path.
LastModule(text) == SubSeq(text, LastIndexOf(text, DOT) + 1, Len(text))

\* C10 as amended: every file written by copy_extensions_to_source is
\* in the descriptor's in-place directory under the base name of the
\* descriptor's staged destination: the base name of the resolved source for
\* a directory-style destination, the destination's own last component for
\* an exact-file destination, the extension file name of the module for a
\* BuiltExtension.
C10_InplaceUnderDestinationName ==
    \A k \in 1..Len(copies) :
        LET c   == copies[k]
            ext == extensions[c.ext]
        IN  c.by = "copy_extensions_to_source"
            => /\ Parent(c.dst) = InplaceDir(ext)
               /\ BaseName(c.dst) =
                     IF ext.kind = "BuiltExtension"
                     THEN LastModule(ext.dst) \o ExtSuffix
                     ELSE IF ext.dst[Len(ext.dst)] = SLASH
                          THEN BaseName(c.src)
                          ELSE LastComponent(ext.dst)

\* C10 witness: an exact-file descriptor was copied in place under a name
\* that is not its source's, and the install is done.
C10_Witness ==
    /\ pc = "done"
    /\ \E k \in 1..Len(copies) :
          /\ copies[k].by = "copy_extensions_to_source"
          /\ extensions[copies[k].ext] = InitFile
          /\ BaseName(copies[k].src) = <<"init", ".in">>
          /\ copies[k].dst = << <<"bin">>, <<"__init__", ".py">> >>

\* The maximal runs of text between separators, as index pairs, and the
\* fields they delimit, in the order of the text.
Runs(text, seps) ==
    {r \in (1..Len(text)) \X (1..Len(text)) :
        /\ r[1] <= r[2]
        /\ \A k \in r[1]..r[2] : text[k] \notin seps
        /\ r[1] = 1 \/ text[r[1] - 1] \in seps
        /\ r[2] = Len(text) \/ text[r[2] + 1] \in seps}

FieldsOf(text, seps) ==
    LET R == Runs(text, seps)
        nth(k) == CHOOSE r \in R : Cardinality({q \in R : q[1] < r[1]}) = k - 1
    IN  [k \in 1..Cardinality(R) |-> SubSeq(text, nth(k)[1], nth(k)[2])]

\* The fields of an override variable, none if it is unset.
OverrideFields(var, seps) ==
    IF var \in DOMAIN environ THEN FieldsOf(environ[var], seps) ELSE <<>>

IsSuffix(suffix, seq) ==
    /\ Len(suffix) <= Len(seq)
    /\ SubSeq(seq, Len(seq) - Len(suffix) + 1, Len(seq)) = suffix

\* C6 as claimed: in cmake_args and in build_args the whitespace-split tokens
\* of the override are, in order, the final suffix of the list.
C6_OverrideIsFinalSuffix ==
    pc = "assembled"
    => /\ IsSuffix(OverrideFields("CMAKE_ARGS", {SPACE, TAB}), cmake_args)
       /\ IsSuffix(OverrideFields("CMAKE_BUILD_ARGS", {SPACE, TAB}), build_args)

\* C6 as amended: the items of an override are its non-empty fields between
\* space characters (a tab does not split).  In cmake_args they are, in order,
\* the final suffix of the list.  In build_args they are, in order and
\* contiguous, followed by exactly the two elements "--config" and the build
\* type, which end the list.
C6_OverridePlacement ==
    pc = "assembled"
    => /\ IsSuffix(OverrideFields("CMAKE_ARGS", {SPACE}), cmake_args)
       /\ IsSuffix(OverrideFields("CMAKE_BUILD_ARGS", {SPACE})
                      \o << <<"--config">>, <<cfg>> >>, build_args)

\* C6 witness: the lists were assembled from a build override of two items
\* with surplus spaces and from a configure override of two items.
C6_Witness ==
    /\ pc = "assembled"
    /\ "CMAKE_BUILD_ARGS" \in DOMAIN environ
    /\ environ["CMAKE_BUILD_ARGS"] = << "a", SPACE, SPACE, "b" >>
    /\ IsSuffix(<< <<"a">>, <<"b">>, <<"--config">>, <<cfg>> >>, build_args)
    /\ IsSuffix(<< <<"b">>, <<"a">> >>, cmake_args)

\* C11: placeholder substitution in src_path is total and idempotent: the
\* pattern every src_path call globbed holds neither the cache-directory
\* nor the build-type placeholder, and substituting it once more leaves it
\* as it is.
C11_SubstitutionTotalIdempotent ==
    \A k \in 1..Len(resolves) :
        resolves[k].pattern # <<>> =>
            LET pattern == resolves[k].pattern[1]
            IN  /\ ~Contains(pattern, <<CACHE_DIR_TOKEN>>)
                /\ ~Contains(pattern, <<BUILD_TYPE_TOKEN>>)
                /\ SubstitutePlaceholders(pattern, os_name, resolves[k].cfg[1])
                       = pattern

\* The call of resolves at k was made with the descriptor's own source (it
\* is not a retried call).
IsFirstCall(k) == resolves[k].src = extensions[1].src

\* The files under the cache directory that the descriptor's pattern matches
\* once its ".so" is written ".dylib".
DylibMatches ==
    LET given == SubSeq(extensions[1].src, 3, Len(extensions[1].src))
    IN  Glob(CMakeCacheDir,
             SubSeq(given, 1, Len(given) - 1) \o <<".dylib">>,
             DOMAIN fs)

\* C12: when the first resolution of a BuiltExtension fails with a
\* ValueError and its source ends in ".so", exactly one more resolution
\* follows, of the same source with ".dylib" for ".so", in the same cache
\* directory; it returns the file if exactly one matches and fails
\* otherwise, and its failure ends the command.  When the source does not
\* end in ".so", or the first resolution succeeds, no retried resolution
\* follows, and a failure propagates as it is.
C12_DylibRetry ==
    \A k \in 1..Len(resolves) :
        LET call   == resolves[k]
            src    == extensions[1].src
            last   == k = Len(resolves)
        IN  IF ~IsFirstCall(k)
            THEN \* a retried call comes right after a failed first call
                 /\ k > 1
                 /\ IsFirstCall(k - 1)
                 /\ ~resolves[k - 1].result.ok
            ELSE IF call.result.ok
            THEN last \/ IsFirstCall(k + 1)
            ELSE IF call.result.err = "ValueError" /\ EndsWith(src, <<".so">>)
            THEN /\ ~last
                 /\ LET retry == resolves[k + 1]
                    IN  /\ retry.src = <<CACHE_DIR_TOKEN, SLASH>>
                                          \o SubSeq(src, 1, Len(src) - 1)
                                          \o <<".dylib">>
                        /\ retry.build_dir = call.build_dir
                        /\ retry.result.ok <=> Cardinality(DylibMatches) = 1
                        /\ retry.result.ok => DylibMatches = {retry.result.path}
                        /\ ~retry.result.ok =>
                              /\ k + 1 = Len(resolves)
                              /\ pc = "failed"
                              /\ raised[1].type = "ValueError"
                        /\ retry.result.ok =>
                              (k + 1 = Len(resolves) \/ IsFirstCall(k + 2))
            ELSE /\ last
                 /\ pc = "failed"
                 /\ raised[1].type = call.result.err

\* C12 witness: the first resolution of "out/lib.so" failed, the retried
\* one found "out/lib.dylib", and that file was copied.
C12_Witness ==
    /\ pc = "done"
    /\ Len(resolves) >= 2
    /\ ~resolves[1].result.ok
    /\ resolves[2].result.ok
    /\ resolves[2].result.path = CMakeCacheDir \o << <<"out">>, <<"lib", ".dylib">> >>
    /\ \E c \in 1..Len(copies) : copies[c].src = resolves[2].result.path

\* C12 as first stated: every failed first resolution of a source ending in
\* ".so" is followed by a retried resolution, whatever the failure was.
C12_RetryOnAnyFailure ==
    \A k \in 1..Len(resolves) :
        /\ IsFirstCall(k)
        /\ ~resolves[k].result.ok
        /\ EndsWith(extensions[1].src, <<".so">>)
        => /\ k < Len(resolves)
           /\ ~IsFirstCall(k + 1)

\* The path lies under the staging root (build_lib).
UnderBuildLib(q) ==
    Len(q) > Len(BuildLib) /\ SubSeq(q, 1, Len(BuildLib)) = BuildLib

\* C13: build_extension changes the file system only under the staging
\* root: every file outside it, the resolved source and the rest of the
\* build-output tree among them, has the same content and the same
\* permission bits after the step as before it, and no file appears outside
\* the staging root.
C13_OnlyStagingChanges ==
    [][pc = "build_extensions" =>
          /\ \A q \in DOMAIN fs :
                ~UnderBuildLib(q) => q \in DOMAIN fs' /\ fs'[q] = fs[q]
          /\ \A q \in (DOMAIN fs') \ (DOMAIN fs) : UnderBuildLib(q)]_vars

\* C14: cmake_cache_dir of the build command is written only by
\* CustomBuild.run, when its build step has returned zero, and at most once
\* in a run: it goes from unset to the cache directory and never changes
\* again; no step of InstallerBuildExt (run, build_extension,
\* copy_extensions_to_source, with the src_path, dst_path and inplace_dir
\* calls they make) changes it.
C14_SingleWriter ==
    [][/\ cmake_cache_dir' # cmake_cache_dir =>
             /\ pc = "building"
             /\ pc' = "ext_run"
             /\ cmake_cache_dir = <<>>
             /\ cmake_cache_dir' = <<CMakeCacheDir>>
             /\ log'[Len(log')].ev = "subcommands"
       /\ pc \in {"ext_run", "build_returned", "build_extensions",
                   "copy_to_source", "done", "failed"} =>
             cmake_cache_dir' = cmake_cache_dir]_vars

\* C14 witness: the build command published the cache directory, both
\* install loops then resolved and copied, and the published value stands.
C14_Witness ==
    /\ pc = "done"
    /\ cmake_cache_dir = <<CMakeCacheDir>>
    /\ \E k \in 1..Len(copies) : copies[k].by = "copy_extensions_to_source"
    /\ \E k \in 1..Len(resolves) : resolves[k].build_dir = <<CMakeCacheDir>>

\* The build step of CustomBuild.run has returned zero in this process.
BuildCompleted ==
    \E i \in 1..Len(log) : log[i].ev = "build_returned" /\ log[i].returncode = 0

\* C15: a src_path call on a pattern that names the cache directory, made
\* while the build command has not completed its build step, raises
\* RuntimeError without searching any directory, the current one included;
\* once the build step has completed such a call searches the cache
\* directory.  A call on a pattern without the placeholder searches the
\* current directory either way, and what it returns is a path under it.
C15_NoCacheNoSearch ==
    \A k \in 1..Len(resolves) :
        LET call == resolves[k]
        IN  IF Contains(call.src, <<CACHE_DIR_TOKEN>>)
            THEN IF BuildCompleted
                 THEN call.build_dir = <<CMakeCacheDir>>
                 ELSE /\ call.result = Raise("RuntimeError")
                      /\ call.build_dir = <<>>
                      /\ call.pattern = <<>>
                      /\ pc = "failed"
                      /\ raised[1].type = "RuntimeError"
                      /\ k = Len(resolves)
            ELSE /\ call.build_dir = << <<>> >>
                 /\ call.result.ok =>
                       /\ ~IsAbs(call.result.path)
                       /\ CWD \o call.result.path \in Entries(DOMAIN fs)

\* C15 witness: build_ext ran on its own; a pattern without the placeholder
\* was resolved under the current directory and copied, then a pattern that
\* names the cache directory raised RuntimeError.
C15_Witness ==
    /\ ~BuildCompleted
    /\ pc = "failed"
    /\ raised[1].type = "RuntimeError"
    /\ Len(resolves) >= 2
    /\ resolves[1].result.ok
    /\ resolves[1].build_dir = << <<>> >>
    /\ copies # <<>>
    /\ Contains(resolves[Len(resolves)].src, <<CACHE_DIR_TOKEN>>)
    /\ resolves[Len(resolves)].result = Raise("RuntimeError")

\* How many times an event is in the log of CustomBuild.run.
Times(ev) == Cardinality({i \in 1..Len(log) : log[i].ev = ev})

\* How many times a loop copied the descriptor at index e.
CopiesOf(loop, e) ==
    Cardinality({k \in 1..Len(copies) : copies[k].by = loop /\ copies[k].ext = e})

\* C16: in editable mode one top-level InstallerBuildExt.run runs the build
\* command at most once and installs each descriptor at most once per loop,
\* and exactly once by the time it has returned; nothing is resolved or
\* copied before the build command has run its build step and its
\* sub-commands; when the re-entrant call made by the build command has
\* returned, the build has run once and nothing has been installed.
C16_BuildOnceInstallOnce ==
    editable_mode =>
        /\ \A ev \in {"assemble", "configure", "build", "subcommands"} :
              Times(ev) <= 1
        /\ \A e \in 1..Len(extensions) :
              /\ CopiesOf("build_extension", e) <= 1
              /\ CopiesOf("copy_extensions_to_source", e) <= 1
        /\ (copies # <<>> \/ resolves # <<>>) =>
              /\ Times("subcommands") = 1
              /\ log[Len(log)].ev = "subcommands"
        /\ pc \in {"build_run", "assembled", "configuring", "building"} =>
              ran_build /\ copies = <<>> /\ resolves = <<>>
        /\ pc = "build_returned" =>
              /\ Times("assemble") = 1
              /\ Times("subcommands") = 1
              /\ copies = <<>>
              /\ resolves = <<>>
        /\ pc = "done" =>
              /\ Times("assemble") = 1
              /\ \A e \in 1..Len(extensions) :
                    /\ CopiesOf("build_extension", e) = 1
                    /\ CopiesOf("copy_extensions_to_source", e) = 1

\* C16 witness: an editable install ran to its end: one build, then both
\* install loops.
C16_Witness ==
    /\ editable_mode
    /\ ran_build
    /\ pc = "done"
    /\ Times("assemble") = 1
    /\ Times("subcommands") = 1
    /\ CopiesOf("build_extension", 1) = 1
    /\ CopiesOf("copy_extensions_to_source", Len(extensions)) = 1

\* C17: once CustomBuild.run has finished, by its return (the sub-commands
\* it runs included) or by the exception of a failed configure or build
\* step, os.environ is what it was when run started: the same variables
\* with the same values.
C17_EnvironmentRestored ==
    (log # <<>> /\ pc \in {"done", "failed"}) => environ = log[1].env

\* C18: the build type every src_path call puts in place of the build-type
\* placeholder (on Windows, where the placeholder is replaced and not
\* removed) is the build type CustomBuild.run gave to the configure step as
\* CMAKE_BUILD_TYPE and to the build step after --config.
C18_OneBuildType ==
    \A k \in 1..Len(resolves) :
        (/\ os_name = "nt"
         /\ resolves[k].cfg # <<>>
         /\ Contains(resolves[k].src, <<BUILD_TYPE_TOKEN>>))
        => \A i \in 1..Len(log) :
              /\ log[i].ev = "configure" =>
                    \E j \in 1..Len(log[i].args) :
                        log[i].args[j] = <<"-DCMAKE_BUILD_TYPE=", resolves[k].cfg[1]>>
              /\ log[i].ev = "build" =>
                    /\ log[i].args[Len(log[i].args) - 1] = <<"--config">>
                    /\ log[i].args[Len(log[i].args)] = <<resolves[k].cfg[1]>>

============================================================================
